---------------------------- MODULE Spec2Model ----------------------------
(***************************************************************************)
(* A model of go-githelpers: the URL decomposition helper (common.go), the *)
(* GitLab identifier resolution and merge-request creation (gitlab.go) and *)
(* the Git orchestration (git.go).  The Git and GitLab libraries are black *)
(* boxes: every call into them is recorded in a call log and its outcome   *)
(* (a result or an error) is chosen nondeterministically.                  *)
(*                                                                         *)
(* A Go string is a sequence of one-character strings.                     *)
(***************************************************************************)
EXTENDS Integers, Sequences, FiniteSets, TLC

VARIABLES
    \* ---- splitRepoURL (common.go)
    url,        \* the argument of splitRepoURL
    urlPc,      \* "idle" | "returned" | "panicked"
    vcs,        \* first result of splitRepoURL
    ns,         \* second result
    name,       \* third result
    \* ---- GitLab resolution (gitlab.go)
    gr,         \* the GitRepo fields the GitLab operations read
    glOp,       \* the operation that ran, "none" before it
    glArg,      \* its string argument
    glCalls,    \* the GitLab API calls it issued, each with its response
    glRet,      \* what it returned
    \* ---- Git orchestration (git.go)
    fs,         \* the repo directory: what os.Stat finds for each init file
    Repo,       \* gr.Repo: "nil", "zero" (&git.Repository{}) or "repo"
    Worktree,   \* gr.Worktree: "nil" or "wt"
    gitOp,      \* the operation that ran last, "none" before any
    gitArg,     \* its string argument
    gitCalls,   \* the Git backend and filesystem calls it made, in order
    gitRet      \* what it returned

urlVars == <<url, urlPc, vcs, ns, name>>

glVars == <<gr, glOp, glArg, glCalls, glRet>>

gitVars == <<fs, Repo, Worktree, gitOp, gitArg, gitCalls, gitRet>>

-----------------------------------------------------------------------------
(* Bounds of the model *)

\* longest arbitrary input string handed to splitRepoURL
MaxLen == 4

\* longest generated path segment of a structured URL
MaxSegLen == 2

\* most groups, and most projects, one listing call returns
MaxListed == 2

-----------------------------------------------------------------------------
(* Strings *)

Colon == ":"
Slash == "/"
DotGit == <<".", "g", "i", "t">>

Alphabet == {":", "/", ".", "g", "i", "t"}

SegAlphabet == {".", "g"}

\* all strings over alphabet a of length lo..hi
StringsOver(a, lo, hi) == UNION {[1..k -> a] : k \in lo..hi}

\* strings.Contains(s, c) for a one-character c
ContainsChar(s, c) == \E i \in DOMAIN s : s[i] = c

\* strings.Index(s, c) for a one-character c, 1-based; 0 when absent
IndexChar(s, c) ==
    IF ContainsChar(s, c)
    THEN CHOOSE i \in DOMAIN s : s[i] = c /\ \A j \in 1..(i-1) : s[j] # c
    ELSE 0

\* strings.Split(s, sep) for a one-character separator: every occurrence of
\* sep splits, and a string without sep is returned as the only element
RECURSIVE Split(_, _)
Split(s, sep) ==
    LET i == IndexChar(s, sep) IN
    IF i = 0 THEN <<s>>
    ELSE <<SubSeq(s, 1, i-1)>> \o Split(SubSeq(s, i+1, Len(s)), sep)

\* strings.HasSuffix
HasSuffix(s, suf) ==
    /\ Len(s) >= Len(suf)
    /\ SubSeq(s, Len(s) - Len(suf) + 1, Len(s)) = suf

\* a variant of TrimSuffix that never removes anything
TrimSuffixKeeps(s, suf) == s

\* strings.TrimSuffix
TrimSuffix(s, suf) ==
    IF HasSuffix(s, suf) THEN SubSeq(s, 1, Len(s) - Len(suf)) ELSE s

\* the trailing-slash stripping loop of filepath.Base
RECURSIVE StripTrailingSlashes(_)
StripTrailingSlashes(p) ==
    IF Len(p) > 0 /\ p[Len(p)] = Slash
    THEN StripTrailingSlashes(SubSeq(p, 1, Len(p) - 1))
    ELSE p

\* the part of p after its last '/', p itself when it has none
AfterLastSlash(p) ==
    LET idx == {i \in DOMAIN p : p[i] = Slash} IN
    IF idx = {} THEN p
    ELSE LET i == CHOOSE k \in idx : \A j \in idx : j <= k
         IN SubSeq(p, i+1, Len(p))

\* filepath.Base with '/' as the separator: "." for the empty path, "/" for a
\* path of slashes only, else the last element after trailing slashes are cut
Base(path) ==
    IF path = <<>> THEN <<".">>
    ELSE LET last == AfterLastSlash(StripTrailingSlashes(path)) IN
         IF last = <<>> THEN <<Slash>> ELSE last

\* unpack(s, &v1, ..., &vn): element i of s is stored in vars[i]; an element
\* beyond the variables given indexes vars out of range and panics.  The
\* variables not reached keep the value they had (init).
unpack(s, init) ==
    IF Len(s) > Len(init)
    THEN [panic |-> TRUE, vars |-> init]
    ELSE [panic |-> FALSE,
          vars  |-> [i \in DOMAIN init |-> IF i <= Len(s) THEN s[i] ELSE init[i]]]

\* splitRepoURL(url): [panic, vcs, ns, name]
splitRepoURL(u) ==
    LET up       == unpack(Split(u, Colon), <<<<>>, <<>>>>)
        sansVcs  == up.vars[2]
        fullPath == TrimSuffix(sansVcs, DotGit)
        nm       == Base(fullPath)
    IN  [panic |-> up.panic,
         vcs   |-> up.vars[1],
         ns    |-> TrimSuffix(fullPath, <<Slash>> \o nm),
         name  |-> nm]

-----------------------------------------------------------------------------
(* Values of the parts that a specification leaves alone *)

Nil == "nil"

\* a GitRepo whose GitLab fields are not set
NoGitRepo == [SSHURL |-> <<>>, Namespace |-> <<>>, Dir |-> <<>>]

\* nothing returned yet
NoRet == [panic |-> FALSE, id |-> 0, mr |-> Nil, err |-> Nil]

NoGitRet == [panic |-> FALSE, err |-> Nil, initErr |-> Nil, initLen |-> 0]

InitFiles == <<".gitignore", "CODEOWNERS">>

NoFiles == [f \in {InitFiles[1], InitFiles[2]} |-> "absent"]

-----------------------------------------------------------------------------
(* Inputs of splitRepoURL *)

\* path segments: no '/' and no ':' inside, never empty; ".git" itself is one
Segs == StringsOver(SegAlphabet, 1, MaxSegLen) \cup {DotGit}

\* the path shapes the specification names: name, ns/name, ns1/ns2/name
Depths == {1, 2, 3}

RECURSIVE JoinSlash(_)
JoinSlash(segs) ==
    IF Len(segs) = 1 THEN segs[1]
    ELSE segs[1] \o <<Slash>> \o JoinSlash(Tail(segs))

SegPaths == {JoinSlash(p) : p \in UNION {[1..d -> Segs] : d \in Depths}}

\* scheme:path and scheme:path.git
StructuredURLs ==
    {s \o <<Colon>> \o p \o suf : s \in Segs, p \in SegPaths, suf \in {<<>>, DotGit}}

URLInputs == StringsOver(Alphabet, 0, MaxLen) \cup StructuredURLs

-----------------------------------------------------------------------------
(* splitRepoURL as a state machine: an input, then one call *)

InitURL ==
    /\ url \in URLInputs
    /\ urlPc = "idle"
    /\ vcs = <<>>
    /\ ns = <<>>
    /\ name = <<>>
    /\ gr = NoGitRepo
    /\ glOp = "none"
    /\ glArg = <<>>
    /\ glCalls = <<>>
    /\ glRet = NoRet
    /\ fs = NoFiles
    /\ Repo = Nil
    /\ Worktree = Nil
    /\ gitOp = "none"
    /\ gitArg = ""
    /\ gitCalls = <<>>
    /\ gitRet = NoGitRet

SplitRepoURLCall ==
    /\ urlPc = "idle"
    /\ LET r == splitRepoURL(url) IN
         IF r.panic
         THEN /\ urlPc' = "panicked"
              /\ UNCHANGED <<vcs, ns, name>>
         ELSE /\ urlPc' = "returned"
              /\ vcs' = r.vcs
              /\ ns' = r.ns
              /\ name' = r.name
    /\ UNCHANGED <<url, glVars, gitVars>>

NextURL == SplitRepoURLCall

-----------------------------------------------------------------------------
(* GitLab: the remote API is a black box.  A listing call answers with a   *)
(* list and a nil error, or with no list and an error.                     *)

ErrListGroups == "error: ListGroups"
ErrListGroupProjects == "error: ListGroupProjects"
ErrCreateMergeRequest == "error: CreateMergeRequest"

\* identifiers the remote API hands out; 0 is Go's zero value, never one of them
IDs == {1, 2}

GroupFullPaths == {<<"g">>, <<"g", "/", "t">>}

ProjectPaths == {<<"i">>, <<"t">>}

Groups == [ID : IDs, FullPath : GroupFullPaths]

Projects == [ID : IDs, Path : ProjectPaths]

ListsOf(S) == UNION {[1..k -> S] : k \in 0..MaxListed}

GroupsResponses ==
    {[list |-> l, err |-> Nil] : l \in ListsOf(Groups)}
        \cup {[list |-> <<>>, err |-> ErrListGroups]}

ProjectsResponses ==
    {[list |-> l, err |-> Nil] : l \in ListsOf(Projects)}
        \cup {[list |-> <<>>, err |-> ErrListGroupProjects]}

CreateResponses ==
    {[mr |-> "mr", err |-> Nil], [mr |-> Nil, err |-> ErrCreateMergeRequest]}

\* one API call as the log keeps it
ApiCall(api, arg, resp) == [api |-> api, arg |-> arg, resp |-> resp]

\* getGitlabGroups: one ListGroups call, its answer passed on
getGitlabGroups(gresp) ==
    [groups |-> gresp.list, err |-> gresp.err,
     calls |-> <<ApiCall("ListGroups", 0, gresp)>>]

\* the scan stopping at the first group that matches
RECURSIVE ScanGroupsFirst(_, _, _)
ScanGroupsFirst(groups, groupPath, id) ==
    IF groups = <<>> THEN id
    ELSE IF Head(groups).FullPath = groupPath THEN Head(groups).ID
    ELSE ScanGroupsFirst(Tail(groups), groupPath, id)

\* for _, g := range groups { if g.FullPath == groupPath { id = g.ID } }
RECURSIVE ScanGroups(_, _, _)
ScanGroups(groups, groupPath, id) ==
    IF groups = <<>> THEN id
    ELSE ScanGroups(Tail(groups), groupPath,
                    IF Head(groups).FullPath = groupPath THEN Head(groups).ID ELSE id)

\* for _, p := range projects { if p.Path == name { id = p.ID } }
RECURSIVE ScanProjects(_, _, _)
ScanProjects(projects, nm, id) ==
    IF projects = <<>> THEN id
    ELSE ScanProjects(Tail(projects), nm,
                      IF Head(projects).Path = nm THEN Head(projects).ID ELSE id)

\* a variant of getGitlabGroupID whose scan stops at the first match
getGitlabGroupIDFirst(groupPath, gresp) ==
    LET g == getGitlabGroups(gresp) IN
    [id |-> ScanGroupsFirst(g.groups, groupPath, 0), err |-> g.err, calls |-> g.calls]

\* getGitlabGroupID(groupPath): (id, err) and the calls issued
getGitlabGroupID(groupPath, gresp) ==
    LET g == getGitlabGroups(gresp) IN
    [id |-> ScanGroups(g.groups, groupPath, 0), err |-> g.err, calls |-> g.calls]

\* the body shared by both getGitlabProjectID: the group is resolved, its
\* error is overwritten by that of ListGroupProjects, which is always called
ProjectIDOf(nm, parentGroupPath, gresp, presp) ==
    LET parent == getGitlabGroupID(parentGroupPath, gresp) IN
    [panic |-> FALSE,
     id    |-> ScanProjects(presp.list, nm, 0),
     err   |-> presp.err,
     calls |-> parent.calls \o <<ApiCall("ListGroupProjects", parent.id, presp)>>]

\* getGitlabProjectID(url) of package githelpers
getGitlabProjectID(u, gresp, presp) ==
    LET sp == splitRepoURL(u) IN
    IF sp.panic
    THEN [panic |-> TRUE, id |-> 0, err |-> Nil, calls |-> <<>>]
    ELSE ProjectIDOf(sp.name, sp.ns, gresp, presp)

\* getGitlabProjectID(name, parentGroupPath) of package main
MainGetGitlabProjectID(nm, parentGroupPath, gresp, presp) ==
    ProjectIDOf(nm, parentGroupPath, gresp, presp)

\* NewGitlabMergeRequest of package githelpers: the project is resolved, an
\* error of the resolution is returned, else the merge request is created
NewGitlabMergeRequest(g, gresp, presp, cresp) ==
    LET p == getGitlabProjectID(g.SSHURL, gresp, presp) IN
    IF p.panic THEN [panic |-> TRUE, mr |-> Nil, err |-> Nil, calls |-> p.calls]
    ELSE IF p.err # Nil
    THEN [panic |-> FALSE, mr |-> Nil, err |-> p.err, calls |-> p.calls]
    ELSE [panic |-> FALSE, mr |-> cresp.mr, err |-> cresp.err,
          calls |-> p.calls \o <<ApiCall("CreateMergeRequest", p.id, cresp)>>]

\* NewGitlabMergeRequest of package main: the resolution's error is not looked at
MainNewGitlabMergeRequest(g, gresp, presp, cresp) ==
    LET p == MainGetGitlabProjectID(g.Dir, g.Namespace, gresp, presp) IN
    [panic |-> FALSE, mr |-> cresp.mr, err |-> cresp.err,
     calls |-> p.calls \o <<ApiCall("CreateMergeRequest", p.id, cresp)>>]

-----------------------------------------------------------------------------
(* The GitLab operations as a state machine: a GitRepo, then one operation *)

\* the SSH URL of a repository: scheme:namespace/name.git
RepoURL(nsPath, nm) == <<"g", Colon>> \o nsPath \o <<Slash>> \o nm \o DotGit

InitGitlab ==
    /\ \E nsPath \in GroupFullPaths, nm \in ProjectPaths :
         gr = [SSHURL |-> RepoURL(nsPath, nm), Namespace |-> nsPath, Dir |-> nm]
    /\ glOp = "none"
    /\ glArg = <<>>
    /\ glCalls = <<>>
    /\ glRet = NoRet
    /\ url = <<>>
    /\ urlPc = "idle"
    /\ vcs = <<>>
    /\ ns = <<>>
    /\ name = <<>>
    /\ fs = NoFiles
    /\ Repo = Nil
    /\ Worktree = Nil
    /\ gitOp = "none"
    /\ gitArg = ""
    /\ gitCalls = <<>>
    /\ gitRet = NoGitRet

GetGitlabGroupIDCall ==
    /\ glOp = "none"
    /\ \E groupPath \in GroupFullPaths, gresp \in GroupsResponses :
         LET r == getGitlabGroupID(groupPath, gresp) IN
         /\ glOp' = "getGitlabGroupID"
         /\ glArg' = groupPath
         /\ glCalls' = r.calls
         /\ glRet' = [NoRet EXCEPT !.id = r.id, !.err = r.err]
    /\ UNCHANGED <<gr, urlVars, gitVars>>

GetGitlabProjectIDCall ==
    /\ glOp = "none"
    /\ \E gresp \in GroupsResponses, presp \in ProjectsResponses :
         LET r == getGitlabProjectID(gr.SSHURL, gresp, presp) IN
         /\ glOp' = "getGitlabProjectID"
         /\ glArg' = gr.SSHURL
         /\ glCalls' = r.calls
         /\ glRet' = [NoRet EXCEPT !.panic = r.panic, !.id = r.id, !.err = r.err]
    /\ UNCHANGED <<gr, urlVars, gitVars>>

MainGetGitlabProjectIDCall ==
    /\ glOp = "none"
    /\ \E gresp \in GroupsResponses, presp \in ProjectsResponses :
         LET r == MainGetGitlabProjectID(gr.Dir, gr.Namespace, gresp, presp) IN
         /\ glOp' = "main.getGitlabProjectID"
         /\ glArg' = gr.Namespace
         /\ glCalls' = r.calls
         /\ glRet' = [NoRet EXCEPT !.id = r.id, !.err = r.err]
    /\ UNCHANGED <<gr, urlVars, gitVars>>

NewGitlabMergeRequestCall ==
    /\ glOp = "none"
    /\ \E gresp \in GroupsResponses, presp \in ProjectsResponses,
          cresp \in CreateResponses :
         LET r == NewGitlabMergeRequest(gr, gresp, presp, cresp) IN
         /\ glOp' = "NewGitlabMergeRequest"
         /\ glArg' = gr.SSHURL
         /\ glCalls' = r.calls
         /\ glRet' = [NoRet EXCEPT !.panic = r.panic, !.mr = r.mr, !.err = r.err]
    /\ UNCHANGED <<gr, urlVars, gitVars>>

MainNewGitlabMergeRequestCall ==
    /\ glOp = "none"
    /\ \E gresp \in GroupsResponses, presp \in ProjectsResponses,
          cresp \in CreateResponses :
         LET r == MainNewGitlabMergeRequest(gr, gresp, presp, cresp) IN
         /\ glOp' = "main.NewGitlabMergeRequest"
         /\ glArg' = gr.Namespace
         /\ glCalls' = r.calls
         /\ glRet' = [NoRet EXCEPT !.mr = r.mr, !.err = r.err]
    /\ UNCHANGED <<gr, urlVars, gitVars>>

NextGitlab ==
    \/ GetGitlabGroupIDCall
    \/ GetGitlabProjectIDCall
    \/ MainGetGitlabProjectIDCall
    \/ NewGitlabMergeRequestCall
    \/ MainNewGitlabMergeRequestCall

-----------------------------------------------------------------------------
(* Git: the backend is a black box.  An operation is a plan of calls, each *)
(* followed in the code by `if err != nil { return }`: it runs up to and   *)
(* with the first call that fails.                                         *)

defaultRemoteName == "origin"

MainRefSpec == "refs/heads/master:refs/heads/main"

\* the calls whose failure the backend decides
FailKinds == {"PlainInit", "CreateRemote", "Add", "AddGlob", "Commit", "Push",
              "Checkout", "Remove"}

ErrOf(call) == "error: " \o call

ErrIsBareRepository == "error: worktree not available in a bare repository"

\* one call with its argument and the error it answers with
Step(call, arg, err) == [call |-> call, arg |-> arg, err |-> err]

\* a backend call that fails when the backend says so
BackendStep(call, arg, fails) ==
    Step(call, arg, IF fails[call] THEN ErrOf(call) ELSE Nil)

\* the calls of a plan that are made: all up to and with the first failure
RECURSIVE RunPlan(_)
RunPlan(plan) ==
    IF plan = <<>> THEN <<>>
    ELSE IF Head(plan).err # Nil THEN <<Head(plan)>>
    ELSE <<Head(plan)>> \o RunPlan(Tail(plan))

\* the error a run of calls ends with
LastErr(calls) == IF calls = <<>> THEN Nil ELSE calls[Len(calls)].err

\* a variant of fileExists with the boolean the wrong way round
fileExistsInverted(stat) ==
    IF stat = "absent" THEN [yes |-> TRUE, err |-> Nil]
    ELSE IF stat = "unreadable" THEN [yes |-> FALSE, err |-> ErrOf("Stat")]
    ELSE [yes |-> FALSE, err |-> Nil]

\* fileExists(f): os.Stat says the file is absent, cannot be read, or present
fileExists(stat) ==
    IF stat = "absent" THEN [yes |-> FALSE, err |-> Nil]
    ELSE IF stat = "unreadable" THEN [yes |-> TRUE, err |-> ErrOf("Stat")]
    ELSE [yes |-> TRUE, err |-> Nil]

\* one round of the loop over initFiles: the file is staged when it exists
InitFileSteps(f, fsys, fails) ==
    LET e == fileExists(fsys[f]) IN
    <<Step("Stat", f, e.err)>>
        \o IF e.yes THEN <<BackendStep("Add", f, fails)>> ELSE <<>>

\* InitAndPushNewRepo: [repo, err, calls]
InitAndPushNewRepo(fsys, fails) ==
    LET plan == <<BackendStep("PlainInit", "", fails),
                  BackendStep("CreateRemote", defaultRemoteName, fails),
                  Step("Worktree", "", Nil)>>
                \o InitFileSteps(InitFiles[1], fsys, fails)
                \o InitFileSteps(InitFiles[2], fsys, fails)
                \o <<BackendStep("Commit", "", fails),
                     BackendStep("Push", MainRefSpec, fails)>>
        calls == RunPlan(plan)
    IN  [repo  |-> IF calls[1].err # Nil THEN Nil ELSE "repo",
         err   |-> LastErr(calls),
         calls |-> calls]

\* NewBranch(name, false): [panic, err, worktree, calls].  Worktree() of a nil
\* repository dereferences nil, that of the empty Repository value has no
\* worktree to give; gr.Worktree is set once Checkout has been called.
NewBranch(repo, worktree, branch, fails) ==
    IF repo = Nil
    THEN [panic |-> TRUE, err |-> Nil, worktree |-> worktree, calls |-> <<>>]
    ELSE IF repo = "zero"
    THEN [panic |-> FALSE, err |-> ErrIsBareRepository, worktree |-> worktree,
          calls |-> <<Step("Worktree", "", ErrIsBareRepository)>>]
    ELSE LET co == BackendStep("Checkout", branch, fails) IN
         [panic |-> FALSE, err |-> co.err, worktree |-> "wt",
          calls |-> <<Step("Worktree", "", Nil), co>>]

\* strings.Contains(initType, "init-and-push-main") over the types modelled
InitTypes == {"init-and-push-main", "re-init-and-push-main", "clone"}

ContainsInitAndPushMain(initType) ==
    initType \in {"init-and-push-main", "re-init-and-push-main"}

\* NewGitRepo: [panic, err, repo, worktree, calls, initErr, initLen].  The
\* error of InitAndPushNewRepo is overwritten by that of NewBranch.
NewGitRepo(initType, fsys, fails) ==
    LET ip == IF ContainsInitAndPushMain(initType)
              THEN InitAndPushNewRepo(fsys, fails)
              ELSE [repo |-> "zero", err |-> Nil, calls |-> <<>>]
        nb == NewBranch(ip.repo, Nil, "main", fails)
        rm == BackendStep("Remove", "refs/heads/master", fails)
        base == [panic |-> nb.panic, err |-> nb.err, repo |-> ip.repo,
                 worktree |-> nb.worktree, calls |-> ip.calls \o nb.calls,
                 initErr |-> ip.err, initLen |-> Len(ip.calls)]
    IN  IF nb.panic \/ nb.err # Nil THEN base
        ELSE [base EXCEPT !.err = rm.err, !.calls = @ \o <<rm>>]

\* CommitAll: AddGlob("."), then Commit
CommitAll(fails) ==
    LET calls == RunPlan(<<BackendStep("AddGlob", ".", fails),
                           BackendStep("Commit", "", fails)>>)
    IN  [err |-> LastErr(calls), calls |-> calls]

\* Push of package githelpers
Push(fails) ==
    LET calls == <<BackendStep("Push", "", fails)>>
    IN  [err |-> LastErr(calls), calls |-> calls]

\* CommitAndPushAll: CommitAll, then Push unless CommitAll failed
CommitAndPushAll(fails) ==
    LET c == CommitAll(fails) IN
    IF c.err # Nil THEN c
    ELSE LET q == Push(fails) IN [err |-> q.err, calls |-> c.calls \o q.calls]

\* Push of package main: the result of repo.Push is dropped and the named
\* result err, never assigned, is returned
MainPush(fails) ==
    [err |-> Nil, calls |-> <<BackendStep("Push", "", fails)>>]

\* CommitAll of package main: Commit alone
MainCommitAll(fails) ==
    LET calls == <<BackendStep("Commit", "", fails)>>
    IN  [err |-> LastErr(calls), calls |-> calls]

-----------------------------------------------------------------------------
(* The Git operations as a state machine: a directory, the construction of *)
(* the GitRepo, then the operations on it                                  *)

FileStates == {"absent", "present", "unreadable"}

Failures == [FailKinds -> BOOLEAN]

InitGit ==
    /\ fs \in [{InitFiles[1], InitFiles[2]} -> FileStates]
    /\ Repo = Nil
    /\ Worktree = Nil
    /\ gitOp = "none"
    /\ gitArg = ""
    /\ gitCalls = <<>>
    /\ gitRet = NoGitRet
    /\ url = <<>>
    /\ urlPc = "idle"
    /\ vcs = <<>>
    /\ ns = <<>>
    /\ name = <<>>
    /\ gr = NoGitRepo
    /\ glOp = "none"
    /\ glArg = <<>>
    /\ glCalls = <<>>
    /\ glRet = NoRet

\* the package's constructor
NewGitRepoCall ==
    /\ gitOp = "none"
    /\ \E initType \in InitTypes, fails \in Failures :
         LET r == NewGitRepo(initType, fs, fails) IN
         /\ gitOp' = "NewGitRepo"
         /\ gitArg' = initType
         /\ Repo' = r.repo
         /\ Worktree' = r.worktree
         /\ gitCalls' = r.calls
         /\ gitRet' = [panic |-> r.panic, err |-> r.err,
                       initErr |-> r.initErr, initLen |-> r.initLen]
    /\ UNCHANGED <<fs, urlVars, glVars>>

\* InitAndPushNewRepo called on a GitRepo literal
InitAndPushNewRepoCall ==
    /\ gitOp = "none"
    /\ \E fails \in Failures :
         LET r == InitAndPushNewRepo(fs, fails) IN
         /\ gitOp' = "InitAndPushNewRepo"
         /\ gitArg' = ""
         /\ gitCalls' = r.calls
         /\ gitRet' = [panic |-> FALSE, err |-> r.err,
                       initErr |-> r.err, initLen |-> Len(r.calls)]
    /\ UNCHANGED <<fs, Repo, Worktree, urlVars, glVars>>

\* the GitRepo was constructed and holds a repository and a worktree
Constructed ==
    /\ gitOp \notin {"none", "InitAndPushNewRepo"}
    /\ Repo = "repo"
    /\ Worktree = "wt"

\* an operation on the constructed GitRepo; none of them changes its fields
Operate(op, r) ==
    /\ gitOp' = op
    /\ gitArg' = ""
    /\ gitCalls' = r.calls
    /\ gitRet' = [NoGitRet EXCEPT !.err = r.err]
    /\ UNCHANGED <<fs, Repo, Worktree, urlVars, glVars>>

CommitAllCall ==
    /\ Constructed
    /\ \E fails \in Failures : Operate("CommitAll", CommitAll(fails))

PushCall ==
    /\ Constructed
    /\ \E fails \in Failures : Operate("Push", Push(fails))

CommitAndPushAllCall ==
    /\ Constructed
    /\ \E fails \in Failures : Operate("CommitAndPushAll", CommitAndPushAll(fails))

MainPushCall ==
    /\ Constructed
    /\ \E fails \in Failures : Operate("main.Push", MainPush(fails))

MainCommitAllCall ==
    /\ Constructed
    /\ \E fails \in Failures : Operate("main.CommitAll", MainCommitAll(fails))

NextGit ==
    \/ NewGitRepoCall
    \/ InitAndPushNewRepoCall
    \/ CommitAllCall
    \/ PushCall
    \/ CommitAndPushAllCall
    \/ MainPushCall
    \/ MainCommitAllCall

-----------------------------------------------------------------------------
(* Specifications *)

vars == <<urlVars, glVars, gitVars>>

SpecURL == InitURL /\ [][NextURL]_vars

SpecGitlab == InitGitlab /\ [][NextGitlab]_vars

SpecGit == InitGit /\ [][NextGit]_vars

-----------------------------------------------------------------------------
(* What the specification expects of a decomposition, stated on positions  *)
(* of the input and independently of the operators above                   *)

NumChar(s, c) == Cardinality({i \in DOMAIN s : s[i] = c})

FirstColon(s) == CHOOSE i \in DOMAIN s : s[i] = Colon /\ \A j \in 1..(i-1) : s[j] # Colon

BeforeFirstColon(s) == SubSeq(s, 1, FirstColon(s) - 1)

AfterFirstColon(s) == SubSeq(s, FirstColon(s) + 1, Len(s))

EndsWithDotGit(p) ==
    /\ Len(p) >= 4
    /\ p[Len(p)-3] = "." /\ p[Len(p)-2] = "g" /\ p[Len(p)-1] = "i" /\ p[Len(p)] = "t"

WithoutDotGit(p) == IF EndsWithDotGit(p) THEN SubSeq(p, 1, Len(p) - 4) ELSE p

\* position of the last '/' of p, 0 when it has none
LastSlash(p) ==
    IF NumChar(p, Slash) = 0 THEN 0
    ELSE CHOOSE i \in DOMAIN p : p[i] = Slash /\ \A j \in (i+1)..Len(p) : p[j] # Slash

\* the final '/'-separated segment of the path without its ".git"
ExpectedName(p) ==
    LET q == WithoutDotGit(p) IN SubSeq(q, LastSlash(q) + 1, Len(q))

\* everything before the final segment, the separator removed
ExpectedNs(p) ==
    LET q == WithoutDotGit(p) IN SubSeq(q, 1, LastSlash(q) - 1)

\* scheme:ns1/ns2/name.git: one ':', two '/', four non-empty segments
WellFormedURL(u) ==
    /\ NumChar(u, Colon) = 1
    /\ LET p == AfterFirstColon(u)
           q == WithoutDotGit(p)
       IN  /\ BeforeFirstColon(u) # <<>>
           /\ EndsWithDotGit(p)
           /\ NumChar(q, Slash) = 2
           /\ q # <<>> /\ q[1] # Slash /\ q[Len(q)] # Slash
           /\ \A i \in 1..(Len(q)-1) : ~(q[i] = Slash /\ q[i+1] = Slash)

\* C1: for every URL scheme:ns1/ns2/name.git with one ':' and non-empty
\* segments, splitRepoURL returns the scheme, "ns1/ns2" and "name", the
\* ".git" suffix removed.
C1_WellFormedDecomposition ==
    (urlPc # "idle" /\ WellFormedURL(url)) =>
        /\ urlPc = "returned"
        /\ vcs = BeforeFirstColon(url)
        /\ ns = ExpectedNs(AfterFirstColon(url))
        /\ name = ExpectedName(AfterFirstColon(url))
        /\ ns \o <<Slash>> \o name \o DotGit = AfterFirstColon(url)

\* a well-formed URL whose namespace has a ".git" segment has been decomposed
C1_Witness ==
    /\ urlPc = "returned"
    /\ WellFormedURL(url)
    /\ ns = <<"g", "/">> \o DotGit
    /\ name = <<".", "g">>

\* C2: splitRepoURL is total: for every input it returns (it never panics),
\* and an input with a ':' is split on the first ':' only.
C2_TotalSplitOnFirstColon ==
    urlPc # "idle" =>
        /\ urlPc = "returned"
        /\ ContainsChar(url, Colon) => vcs = BeforeFirstColon(url)

\* C3: a (non-empty) input without ':' gives an empty scheme, and the namespace and the
\* name are those of the whole input taken as the path.
C3_NoColonWholeStringIsPath ==
    (urlPc # "idle" /\ url # <<>> /\ ~ContainsChar(url, Colon)) =>
        /\ urlPc = "returned"
        /\ vcs = <<>>
        /\ ns = ExpectedNs(url)
        /\ name = ExpectedName(url)

\* C4: for scheme:path with no '/' in the path, the namespace is empty and the
\* name is the whole path without a trailing ".git".
C4_NoSlashEmptyNamespace ==
    (/\ urlPc # "idle"
     /\ NumChar(url, Colon) = 1
     /\ ~ContainsChar(AfterFirstColon(url), Slash)) =>
        /\ urlPc = "returned"
        /\ ns = <<>>
        /\ name = WithoutDotGit(AfterFirstColon(url))

-----------------------------------------------------------------------------
(* The GitLab claims, read off the call log *)

CallsTo(api) == {i \in DOMAIN glCalls : glCalls[i].api = api}

\* the groups, and the projects, the backend listed in this run
ListedGroups == IF CallsTo("ListGroups") = {} THEN <<>>
                ELSE glCalls[CHOOSE i \in CallsTo("ListGroups") : TRUE].resp.list

ListedProjects == IF CallsTo("ListGroupProjects") = {} THEN <<>>
                  ELSE glCalls[CHOOSE i \in CallsTo("ListGroupProjects") : TRUE].resp.list

ProjectOps == {"getGitlabProjectID", "main.getGitlabProjectID"}

MergeRequestOps == {"NewGitlabMergeRequest", "main.NewGitlabMergeRequest"}

\* the namespace and the name the operation that ran had to resolve
WantedNamespace ==
    IF glOp \in {"getGitlabProjectID", "NewGitlabMergeRequest"}
    THEN ExpectedNs(AfterFirstColon(glArg))
    ELSE glArg

WantedName ==
    IF glOp \in {"getGitlabProjectID", "NewGitlabMergeRequest"}
    THEN ExpectedName(AfterFirstColon(glArg))
    ELSE gr.Dir

GroupMatches == {i \in DOMAIN ListedGroups : ListedGroups[i].FullPath = WantedNamespace}

ProjectMatches == {i \in DOMAIN ListedProjects : ListedProjects[i].Path = WantedName}

\* C5: getGitlabProjectID short-circuits: when the parsed namespace resolves
\* to no group, it returns identifier zero and ListGroupProjects is never
\* called in that run.
C5_ShortCircuitOnUnresolvedGroup ==
    (glOp \in ProjectOps /\ GroupMatches = {}) =>
        /\ glRet.id = 0
        /\ CallsTo("ListGroupProjects") = {}

\* C6: NewGitlabMergeRequest resolves the project before it creates the merge
\* request, and when the resolution finds nothing (identifier zero, nil error)
\* it fails with an error and never calls CreateMergeRequest with zero.
C6_NoMergeRequestForUnresolvedProject ==
    glOp \in MergeRequestOps =>
        /\ \A j \in CallsTo("CreateMergeRequest") :
              \E i \in CallsTo("ListGroupProjects") : i < j
        /\ (/\ \A i \in DOMAIN glCalls : glCalls[i].api # "CreateMergeRequest"
                                          => glCalls[i].resp.err = Nil
            /\ ProjectMatches = {}) =>
              /\ glRet.err # Nil
              /\ \A j \in CallsTo("CreateMergeRequest") : glCalls[j].arg # 0

\* C7: an error of the group listing or of the project listing is the error
\* the resolver returns, whatever a later call answers.
C7_ListingErrorsPassThrough ==
    glOp \in ProjectOps \cup {"getGitlabGroupID"} =>
        \A i \in DOMAIN glCalls :
            glCalls[i].resp.err # Nil => glRet.err = glCalls[i].resp.err

\* C8 as stated: no match gives zero, one match gives its identifier, and of
\* several matches the first in listing order wins.
C8_FirstMatchWins ==
    glOp = "getGitlabGroupID" =>
        glRet.id = IF GroupMatches = {} THEN 0
                   ELSE ListedGroups[CHOOSE i \in GroupMatches :
                                        \A j \in GroupMatches : i <= j].ID

\* C8 as amended: no match gives zero, one match gives its identifier, and of
\* several matches the last in listing order wins.
C8_LastMatchWins ==
    glOp = "getGitlabGroupID" =>
        glRet.id = IF GroupMatches = {} THEN 0
                   ELSE ListedGroups[CHOOSE i \in GroupMatches :
                                        \A j \in GroupMatches : j <= i].ID

\* two listed groups share the wanted full path and differ in identifier
C8_Witness ==
    /\ glOp = "getGitlabGroupID"
    /\ Cardinality(GroupMatches) = 2
    /\ ListedGroups[1].ID = 1
    /\ ListedGroups[2].ID = 2
    /\ glRet.id = 2

-----------------------------------------------------------------------------
(* The Git claims, read off the call log *)

\* the calls into the Git backend that an operation checks
GitBackendCalls == {"PlainInit", "CreateRemote", "Add", "AddGlob", "Commit",
                    "Checkout", "Push"}

IsGitCall(c) == c.call \in GitBackendCalls

CallOf(c) == <<c.call, c.arg>>

\* the backend calls InitAndPushNewRepo made, as (call, argument) pairs
InitGitCalls ==
    LET made == SelectSeq(SubSeq(gitCalls, 1, gitRet.initLen), IsGitCall)
    IN  [i \in DOMAIN made |-> CallOf(made[i])]

\* what the specification has InitAndPushNewRepo do in a directory
ExpectedInitCalls ==
    <<<<"PlainInit", "">>, <<"CreateRemote", "origin">>>>
        \o (IF fs[".gitignore"] = "present" THEN <<<<"Add", ".gitignore">>>> ELSE <<>>)
        \o (IF fs["CODEOWNERS"] = "present" THEN <<<<"Add", "CODEOWNERS">>>> ELSE <<>>)
        \o <<<<"Commit", "">>, <<"Push", "refs/heads/master:refs/heads/main">>>>

IsPrefix(s, t) == Len(s) <= Len(t) /\ SubSeq(t, 1, Len(s)) = s

RanInitAndPush ==
    \/ gitOp = "InitAndPushNewRepo"
    \/ gitOp = "NewGitRepo" /\ gitRet.initLen > 0

\* C9: a failed Git backend call is the error the operation returns: it is
\* not swallowed, the call is not made again, and CommitAndPushAll does not
\* push after a failed commit.
C9_BackendErrorsReturned ==
    gitOp \in {"NewGitRepo", "CommitAll", "Push", "CommitAndPushAll", "main.Push"} =>
        /\ \A i \in DOMAIN gitCalls :
              (IsGitCall(gitCalls[i]) /\ gitCalls[i].err # Nil) =>
                  /\ ~gitRet.panic
                  /\ gitRet.err = gitCalls[i].err
                  /\ \A j \in (i+1)..Len(gitCalls) : gitCalls[j].call # gitCalls[i].call
        /\ gitOp = "CommitAndPushAll" =>
              \A i, j \in DOMAIN gitCalls :
                  (gitCalls[i].call = "Commit" /\ gitCalls[i].err # Nil)
                      => gitCalls[j].call # "Push"

\* C10: InitAndPushNewRepo makes its calls in the order init, create remote
\* "origin", stage .gitignore and CODEOWNERS where present, commit, push
\* master to main; it makes all of them when it returns no error; an absent
\* file is no error; and the push follows a commit that succeeded.
C10_InitAndPushSequence ==
    RanInitAndPush =>
        /\ IsPrefix(InitGitCalls, ExpectedInitCalls)
        /\ gitRet.initErr = Nil => InitGitCalls = ExpectedInitCalls
        /\ gitRet.initErr # Nil =>
              \E i \in 1..gitRet.initLen :
                  /\ gitCalls[i].err = gitRet.initErr
                  /\ gitCalls[i].call = "Stat" => fs[gitCalls[i].arg] = "unreadable"
        /\ \A j \in 1..gitRet.initLen :
              gitCalls[j].call = "Push" =>
                  \E i \in 1..(j-1) : gitCalls[i].call = "Commit" /\ gitCalls[i].err = Nil

\* a directory with .gitignore and without CODEOWNERS was initialised and pushed
C10_Witness ==
    /\ gitOp = "InitAndPushNewRepo"
    /\ fs[".gitignore"] = "present"
    /\ fs["CODEOWNERS"] = "absent"
    /\ gitRet.err = Nil
    /\ InitGitCalls = <<<<"PlainInit", "">>, <<"CreateRemote", "origin">>,
                        <<"Add", ".gitignore">>, <<"Commit", "">>,
                        <<"Push", "refs/heads/master:refs/heads/main">>>>

=============================================================================
